---- MODULE Spec2Model ----
(***************************************************************************)
(* Model of the HealthCarePipeline setup scripts:                          *)
(*   setup_pipeline.py    (environment setup, validation, dbt pipeline)    *)
(*   setup_gcp_looker.py  (BigQuery datasets, service account, key,        *)
(*                         profiles.yml rewrite, connection test)          *)
(*   quick_setup.py       (interactive profiles.yml rewrite)               *)
(*                                                                         *)
(* Text is modelled as a sequence of fragments; the concatenation of the   *)
(* fragments is the Python string.  The two placeholder tokens are each    *)
(* two fragments long, so that text can hold a part of a token, and a      *)
(* replacement can join parts into a token.  No fragment begins or ends    *)
(* inside another one, so a token occurs in a text exactly where its       *)
(* fragments occur side by side.                                           *)
(***************************************************************************)
EXTENDS Integers, Sequences, FiniteSets, TLC

\* ------------------------------------------------------------------ bounds
MaxContentLen == 2
MaxValueLen == 2

\* ------------------------------------------------------- text and tokens
TokY == "your-gcp-"
TokP == "project-id"
KeyDir == "/Users/nezamsp8/Developer/python/dataEngineeringPractice/"
KeyName == "dbt-service-account-key.json"
Other == "acme-health"

\* "your-gcp-project-id"
ProjectToken == <<TokY, TokP>>
\* "/Users/nezamsp8/Developer/python/dataEngineeringPractice/dbt-service-account-key.json"
KeyToken == <<KeyDir, KeyName>>

Fragments == {TokY, TokP, KeyDir, KeyName, Other}

TextsUpTo(n) == UNION {[1..k -> Fragments] : k \in 0..n}

\* Python: sub in s
Contains(s, sub) ==
    \E k \in 0..(Len(s) - Len(sub)) : SubSeq(s, k + 1, k + Len(sub)) = sub

\* Python: s.replace(old, new) for a non-empty old: one scan from the left,
\* every non-overlapping occurrence replaced, the inserted text not rescanned
RECURSIVE Replace(_, _, _)
Replace(s, old, new) ==
    IF Len(s) < Len(old) THEN s
    ELSE IF SubSeq(s, 1, Len(old)) = old
         THEN new \o Replace(SubSeq(s, Len(old) + 1, Len(s)), old, new)
         ELSE <<Head(s)>> \o Replace(Tail(s), old, new)

\* the two replacements of update_profiles_yml, in the order of the code
RewriteContentShortToken(c, pid, kf) ==
    Replace(Replace(c, <<TokY>>, pid), KeyToken, kf)
RewriteContent(c, pid, kf) ==
    Replace(Replace(c, ProjectToken, pid), KeyToken, kf)

\* ------------------------------------------------- external command results
AlreadyExists == "already exists"

Ok(out) == [rc |-> 0, stdout |-> out, stderr |-> <<>>]
Fail(err) == [rc |-> 1, stdout |-> <<>>, stderr |-> err]

\* commands run through run_command (output captured)
CaptureOutcomes == {Ok(<<>>), Ok(<<"output">>), Fail(<<"error">>)}
\* resource-creation commands (bq mk, gcloud ... create)
CreateOutcomes == {Ok(<<>>), Fail(<<AlreadyExists>>), Fail(<<"permission denied">>)}
\* the other commands
PlainOutcomes == {Ok(<<>>), Fail(<<"error">>)}

Entry(kind, argv, o) ==
    [kind |-> kind, argv |-> argv, rc |-> o.rc, stdout |-> o.stdout, stderr |-> o.stderr]

\* str(e) of subprocess.CalledProcessError: the command and the exit status,
\* not the command's error output
StrCalledProcessError(argv, rc) ==
    <<"Command '">> \o argv \o <<"' returned non-zero exit status ", "1", ".">>

\* "already exists" in str(e)
ClassifiedAlreadyExists(argv, rc) ==
    Contains(StrCalledProcessError(argv, rc), <<AlreadyExists>>)

\* run_command: stdout on exit status zero, None otherwise
RunCommandEmptyIsNone(o) ==
    IF o.rc = 0 /\ o.stdout # <<>> THEN [isNone |-> FALSE, value |-> o.stdout]
                                   ELSE [isNone |-> TRUE, value |-> <<>>]
RunCommand(o) ==
    IF o.rc = 0 THEN [isNone |-> FALSE, value |-> o.stdout]
                ELSE [isNone |-> TRUE, value |-> <<>>]

\* run_dbt_pipeline: result is None
StepFailedNever(res) == FALSE
StepFailed(res) == res.isNone

\* ------------------------------------------------------------ file system
MyProject == <<"my_project">>
DbtProjectYml == <<"my_project/", "dbt_project.yml">>
CwdProfiles == <<"profiles.yml">>
QuickProfiles == <<"/Users/nezamsp8/.dbt/", "profiles.yml">>
AltDir == "/opt/healthcare/"
ScriptDirs == {KeyDir, AltDir}
ScriptProfiles(dir) == <<dir, "profiles.yml">>
ScriptProject(dir) == <<dir, "my_project">>
ScriptKey(dir) == <<dir, KeyName>>

Template == <<TokY, TokP, KeyDir, KeyName>>
ProfileContents == {Template, <<Other>>}

\* what the operator may type at a prompt (after strip)
ProjectIdInputs == {<<>>, <<Other>>, <<AlreadyExists>>, ProjectToken, KeyToken}
KeyFileInputs == {<<>>, ScriptKey(AltDir)}

PipelinePaths == {MyProject, DbtProjectYml, CwdProfiles}
PipelineFs == {fs \in SUBSET PipelinePaths : DbtProjectYml \in fs => MyProject \in fs}
QuickPaths == {QuickProfiles, KeyToken, ScriptKey(AltDir)}

Datasets == <<"healthcare_data_dev", "healthcare_data_prod">>
Roles == <<"roles/bigquery.dataEditor", "roles/bigquery.jobUser",
           "roles/bigquery.dataViewer", "roles/bigquery.connectionUser">>
Commands == <<"dbt deps", "dbt seed", "dbt run", "dbt test", "dbt docs generate">>
PipInstalls == <<"pip install dbt-bigquery", "pip install requests">>

Funcs == {"validate_dbt_project", "run_dbt_pipeline", "setup_bigquery_datasets",
          "create_service_account", "create_service_account_key",
          "update_profiles_yml", "test_dbt_connection"}

NotExited == -1
NoPath == <<>>

VARIABLES prog, pc, exists, content, orig, project_id, key_file, script_dir,
          i, log, exit_code, ret, missing, result, race

vars == <<prog, pc, exists, content, orig, project_id, key_file, script_dir,
          i, log, exit_code, ret, missing, result, race>>

\* two concurrent calls of update_profiles_yml: each one's position, its
\* arguments, its local content, its return value, and who wrote last
Runs == {1, 2}
RaceIdle ==
    [pc |-> [r \in Runs |-> "idle"],
     args |-> [r \in Runs |-> [pid |-> <<>>, kf |-> <<>>]],
     buf |-> [r \in Runs |-> <<>>],
     ret |-> [r \in Runs |-> "none"],
     last |-> 0]

\* no run_command call has returned yet
NoResult == [isNone |-> FALSE, value |-> <<"unset">>]

Start(p, at) ==
    /\ prog = p
    /\ pc = at
    /\ orig = content
    /\ project_id = <<>>
    /\ key_file = <<>>
    /\ i = 1
    /\ log = <<>>
    /\ exit_code = NotExited
    /\ ret = [f \in Funcs |-> "none"]
    /\ missing = NoPath
    /\ result = NoResult
    /\ race = RaceIdle

Exit(code) == pc' = "done" /\ exit_code' = code
Issue(e) == log' = Append(log, e)
Return(f, v) == ret' = [ret EXCEPT ![f] = v]

\* ===================================================== setup_pipeline.py
\* main: the project directory check
SpCheckDir ==
    /\ prog = "setup_pipeline" /\ pc = "sp_main"
    /\ IF MyProject \notin exists
       THEN missing' = MyProject /\ Exit(1)
       ELSE pc' = "sp_env" /\ UNCHANGED <<missing, exit_code>>
    /\ UNCHANGED <<race, result, prog, exists, content, orig, project_id, key_file, script_dir, i, log, ret>>

\* setup_environment: two run_command calls, results discarded
SpPipInstall ==
    /\ prog = "setup_pipeline" /\ pc = "sp_env"
    /\ \E o \in CaptureOutcomes : Issue(Entry("pip", <<PipInstalls[i]>>, o))
    /\ IF i < Len(PipInstalls)
       THEN i' = i + 1 /\ pc' = pc
       ELSE i' = 1 /\ pc' = "sp_validate"
    /\ UNCHANGED <<race, result, prog, exists, content, orig, project_id, key_file, script_dir, exit_code, ret, missing>>

\* validate_dbt_project: the first missing path of the two, in the code's order
FirstMissingReversed(fs) ==
    IF CwdProfiles \notin fs THEN CwdProfiles
    ELSE IF DbtProjectYml \notin fs THEN DbtProjectYml
    ELSE NoPath
FirstMissing(fs) ==
    IF DbtProjectYml \notin fs THEN DbtProjectYml
    ELSE IF CwdProfiles \notin fs THEN CwdProfiles
    ELSE NoPath

\* main: if not validate_dbt_project(): sys.exit(1)
SpAfterValidateAlways(valid) == "sp_download"
SpAfterValidate(valid) == IF valid THEN "sp_download" ELSE "exit1"

SpValidate ==
    /\ prog = "setup_pipeline" /\ pc = "sp_validate"
    /\ LET m == FirstMissing(exists)
           next == SpAfterValidate(m = NoPath)
       IN /\ missing' = m
          /\ Return("validate_dbt_project", IF m = NoPath THEN "ok" ELSE "fail")
          /\ IF next = "exit1" THEN Exit(1)
             ELSE pc' = next /\ UNCHANGED exit_code
    /\ UNCHANGED <<race, result, prog, exists, content, orig, project_id, key_file, script_dir, i, log>>

\* download_sample_data: prints, downloads nothing, returns True
SpDownload ==
    /\ prog = "setup_pipeline" /\ pc = "sp_download"
    /\ pc' = "sp_dbt"
    /\ UNCHANGED <<race, result, prog, exists, content, orig, project_id, key_file, script_dir, i, log, exit_code, ret, missing>>

\* run_dbt_pipeline: one iteration of the loop over commands, and main's
\* reaction once the function has returned
SpDbtStep ==
    /\ prog = "setup_pipeline" /\ pc = "sp_dbt"
    /\ \E o \in CaptureOutcomes :
         /\ Issue(Entry("dbt", <<Commands[i]>>, o))
         /\ result' = RunCommand(o)
         /\ IF StepFailed(RunCommand(o))
            THEN /\ Return("run_dbt_pipeline", "fail")
                 /\ Exit(1)
                 /\ i' = i
            ELSE IF i < Len(Commands)
            THEN /\ i' = i + 1
                 /\ UNCHANGED <<pc, exit_code, ret>>
            ELSE /\ Return("run_dbt_pipeline", "ok")
                 /\ Exit(0)
                 /\ i' = i
    /\ UNCHANGED <<race, prog, exists, content, orig, project_id, key_file, script_dir, missing>>

\* =================================================== setup_gcp_looker.py
\* main: check_gcloud_installed; a missing gcloud binary raises
\* FileNotFoundError before any process runs
GlCheckGcloud ==
    /\ prog = "setup_gcp_looker" /\ pc = "gl_main"
    /\ \/ \E o \in PlainOutcomes :
            /\ Issue(Entry("gcloud_version", <<"gcloud", "--version">>, o))
            /\ IF o.rc = 0 THEN pc' = "gl_input" /\ UNCHANGED exit_code
                           ELSE Exit(1)
       \/ Exit(1) /\ UNCHANGED log
    /\ UNCHANGED <<race, result, prog, exists, content, orig, project_id, key_file, script_dir, i, ret, missing>>

\* get_project_info: the project id prompt
GlInput ==
    /\ prog = "setup_gcp_looker" /\ pc = "gl_input"
    /\ \E pid \in ProjectIdInputs :
         /\ project_id' = pid
         /\ IF pid = <<>> THEN Exit(1)
                          ELSE pc' = "gl_describe" /\ UNCHANGED exit_code
    /\ UNCHANGED <<race, result, prog, exists, content, orig, key_file, script_dir, i, log, ret, missing>>

\* get_project_info: gcloud projects describe
GlDescribe ==
    /\ prog = "setup_gcp_looker" /\ pc = "gl_describe"
    /\ \E o \in PlainOutcomes :
         /\ Issue(Entry("describe", <<"gcloud", "projects", "describe">> \o project_id, o))
         /\ IF o.rc = 0 THEN pc' = "gl_auth" /\ UNCHANGED exit_code
                        ELSE Exit(1)
    /\ UNCHANGED <<race, result, prog, exists, content, orig, project_id, key_file, script_dir, i, ret, missing>>

\* get_project_info: gcloud auth list; on failure the email is prompted for
GlAuthList ==
    /\ prog = "setup_gcp_looker" /\ pc = "gl_auth"
    /\ \E o \in PlainOutcomes :
         Issue(Entry("auth_list", <<"gcloud", "auth", "list">>, o))
    /\ pc' = "gl_datasets"
    /\ i' = 1
    /\ UNCHANGED <<race, result, prog, exists, content, orig, project_id, key_file, script_dir, exit_code, ret, missing>>

DatasetArgv(pid, d) == <<"bq", "mk", "--dataset", "--location=US">> \o pid \o <<":", d>>

\* setup_bigquery_datasets: the except branch
AfterDatasetErrorContinue(argv, rc) == "continue"
AfterDatasetError(argv, rc) ==
    IF ClassifiedAlreadyExists(argv, rc) THEN "continue" ELSE "return_false"

\* setup_bigquery_datasets: one iteration of the loop over datasets
GlDataset ==
    /\ prog = "setup_gcp_looker" /\ pc = "gl_datasets"
    /\ \E o \in CreateOutcomes :
         LET argv == DatasetArgv(project_id, Datasets[i])
             go == IF o.rc = 0 THEN "continue" ELSE AfterDatasetError(argv, o.rc)
         IN /\ Issue(Entry("dataset", argv, o))
            /\ IF go = "return_false"
               THEN /\ Return("setup_bigquery_datasets", "fail")
                    /\ Exit(1)
                    /\ i' = i
               ELSE IF i < Len(Datasets)
               THEN /\ i' = i + 1
                    /\ UNCHANGED <<pc, exit_code, ret>>
               ELSE /\ Return("setup_bigquery_datasets", "ok")
                    /\ pc' = "gl_sa"
                    /\ i' = 1
                    /\ UNCHANGED exit_code
    /\ UNCHANGED <<race, result, prog, exists, content, orig, project_id, key_file, script_dir, missing>>

ServiceAccountArgv(pid) ==
    <<"gcloud", "iam", "service-accounts", "create", "dbt-healthcare-service", "--project=">> \o pid

\* create_service_account: the creation command
GlCreateServiceAccount ==
    /\ prog = "setup_gcp_looker" /\ pc = "gl_sa"
    /\ \E o \in CreateOutcomes :
         LET argv == ServiceAccountArgv(project_id)
         IN /\ Issue(Entry("service_account", argv, o))
            /\ IF o.rc # 0 /\ ~ClassifiedAlreadyExists(argv, o.rc)
               THEN /\ Return("create_service_account", "fail")
                    /\ Exit(1)
               ELSE /\ pc' = "gl_roles"
                    /\ UNCHANGED <<exit_code, ret>>
    /\ i' = 1
    /\ UNCHANGED <<race, result, prog, exists, content, orig, project_id, key_file, script_dir, missing>>

\* create_service_account: the except branch of the role loop
AfterRoleBindingFailFast(rc) == IF rc = 0 THEN "continue" ELSE "return_none"
AfterRoleBinding(rc) == "continue"

\* create_service_account: one iteration of the loop over roles
GlRole ==
    /\ prog = "setup_gcp_looker" /\ pc = "gl_roles"
    /\ \E o \in PlainOutcomes :
         /\ Issue(Entry("role", <<"gcloud", "projects", "add-iam-policy-binding", Roles[i]>>, o))
         /\ IF AfterRoleBinding(o.rc) = "return_none"
            THEN /\ Return("create_service_account", "fail")
                 /\ Exit(1)
                 /\ i' = i
            ELSE IF i < Len(Roles)
            THEN /\ i' = i + 1
                 /\ UNCHANGED <<pc, exit_code, ret>>
            ELSE /\ Return("create_service_account", "ok")
                 /\ pc' = "gl_key"
                 /\ i' = 1
                 /\ UNCHANGED exit_code
    /\ UNCHANGED <<race, result, prog, exists, content, orig, project_id, key_file, script_dir, missing>>

\* main: if not key_file: return False
MainAfterKeyAlways(created) == "gl_update"
MainAfterKey(created) == IF created THEN "gl_update" ELSE "return_false"

\* create_service_account_key, and main's reaction
GlCreateKey ==
    /\ prog = "setup_gcp_looker" /\ pc = "gl_key"
    /\ \E o \in PlainOutcomes :
         /\ Issue(Entry("key", <<"gcloud", "iam", "service-accounts", "keys", "create">> \o ScriptKey(script_dir), o))
         /\ key_file' = IF o.rc = 0 THEN ScriptKey(script_dir) ELSE <<>>
         /\ Return("create_service_account_key", IF o.rc = 0 THEN "ok" ELSE "fail")
         /\ IF MainAfterKey(o.rc = 0) = "return_false"
            THEN Exit(1)
            ELSE pc' = "gl_update" /\ UNCHANGED exit_code
    /\ UNCHANGED <<race, result, prog, exists, content, orig, project_id, script_dir, i, missing>>

\* update_profiles_yml (the same body in setup_gcp_looker.py and quick_setup.py)
UpdateProfilesYmlNoCheck(path, pid, kf) ==
    /\ content' = RewriteContent(content, pid, kf)
    /\ Return("update_profiles_yml", "ok")
    /\ UNCHANGED missing
UpdateProfilesYml(path, pid, kf) ==
    IF path \notin exists
    THEN /\ missing' = path
         /\ Return("update_profiles_yml", "fail")
         /\ UNCHANGED content
    ELSE /\ content' = RewriteContent(content, pid, kf)
         /\ Return("update_profiles_yml", "ok")
         /\ UNCHANGED missing

\* main: update_profiles_yml, and its reaction
GlUpdate ==
    /\ prog = "setup_gcp_looker" /\ pc = "gl_update"
    /\ UpdateProfilesYml(ScriptProfiles(script_dir), project_id, key_file)
    /\ IF ScriptProfiles(script_dir) \in exists
       THEN pc' = "gl_test" /\ UNCHANGED exit_code
       ELSE Exit(1)
    /\ UNCHANGED <<race, result, prog, exists, orig, project_id, key_file, script_dir, i, log>>

\* test_dbt_connection; main continues whatever it returns
GlTest ==
    /\ prog = "setup_gcp_looker" /\ pc = "gl_test"
    /\ IF ScriptProject(script_dir) \notin exists
       THEN /\ missing' = ScriptProject(script_dir)
            /\ Return("test_dbt_connection", "fail")
            /\ UNCHANGED log
       ELSE /\ \E o \in PlainOutcomes :
                 /\ Issue(Entry("dbt_debug", <<"dbt", "debug", "--project-dir">> \o ScriptProject(script_dir), o))
                 /\ Return("test_dbt_connection", IF o.rc = 0 THEN "ok" ELSE "fail")
            /\ UNCHANGED missing
    /\ Exit(0)
    /\ UNCHANGED <<race, result, prog, exists, content, orig, project_id, key_file, script_dir, i>>

\* ========================================================= quick_setup.py
\* main: Path(key_file).exists()
KeyFileExistsAlways(kf) == TRUE
KeyFileExists(kf) == kf \in exists

\* main: the two prompts and their checks
QsMain ==
    /\ prog = "quick_setup" /\ pc = "qs_main"
    /\ \E pid \in ProjectIdInputs, typed \in KeyFileInputs :
         LET kf == IF typed = <<>> THEN KeyToken ELSE typed
         IN IF pid = <<>>
            THEN /\ Exit(1)
                 /\ UNCHANGED <<project_id, key_file, missing>>
            ELSE IF ~KeyFileExists(kf)
            THEN /\ Exit(1)
                 /\ missing' = kf
                 /\ project_id' = pid
                 /\ key_file' = kf
            ELSE /\ pc' = "qs_update"
                 /\ project_id' = pid
                 /\ key_file' = kf
                 /\ UNCHANGED <<exit_code, missing>>
    /\ UNCHANGED <<race, result, prog, exists, content, orig, script_dir, i, log, ret>>

\* main: update_profiles_yml, and sys.exit(0 if success else 1)
QsUpdate ==
    /\ prog = "quick_setup" /\ pc = "qs_update"
    /\ UpdateProfilesYml(QuickProfiles, project_id, key_file)
    /\ Exit(IF QuickProfiles \in exists THEN 0 ELSE 1)
    /\ UNCHANGED <<race, result, prog, exists, orig, project_id, key_file, script_dir, i, log>>

\* ============================================ the three entry points run
InitPipeline ==
    /\ exists \in PipelineFs
    /\ content = Template
    /\ script_dir = AltDir
    /\ Start("setup_pipeline", "sp_main")

InitGcp ==
    /\ script_dir \in ScriptDirs
    /\ exists \in SUBSET {ScriptProfiles(script_dir), ScriptProject(script_dir)}
    /\ content \in ProfileContents
    /\ Start("setup_gcp_looker", "gl_main")

InitQuick ==
    /\ exists \in SUBSET QuickPaths
    /\ content \in ProfileContents
    /\ script_dir = AltDir
    /\ Start("quick_setup", "qs_main")

Init == InitPipeline \/ InitGcp \/ InitQuick

Next ==
    \/ SpCheckDir \/ SpPipInstall \/ SpValidate \/ SpDownload \/ SpDbtStep
    \/ GlCheckGcloud \/ GlInput \/ GlDescribe \/ GlAuthList \/ GlDataset
    \/ GlCreateServiceAccount \/ GlRole \/ GlCreateKey \/ GlUpdate \/ GlTest
    \/ QsMain \/ QsUpdate

Spec == Init /\ [][Next]_vars

\* ====================== update_profiles_yml called on arbitrary arguments
Values == TextsUpTo(MaxValueLen) \ {<<>>}

InitRewrite ==
    /\ exists \in SUBSET {QuickProfiles}
    /\ content \in TextsUpTo(MaxContentLen)
    /\ script_dir = AltDir
    /\ prog = "update_profiles_yml"
    /\ pc = "up_call"
    /\ orig = content
    /\ project_id \in Values
    /\ key_file \in Values
    /\ i = 1
    /\ log = <<>>
    /\ exit_code = NotExited
    /\ ret = [f \in Funcs |-> "none"]
    /\ missing = NoPath
    /\ result = NoResult
    /\ race = RaceIdle

UpCall ==
    /\ prog = "update_profiles_yml" /\ pc = "up_call"
    /\ UpdateProfilesYml(QuickProfiles, project_id, key_file)
    /\ pc' = "returned"
    /\ UNCHANGED <<race, result, prog, exists, orig, project_id, key_file, script_dir, i, log, exit_code>>

\* the same call once more, with the same arguments, after a first success
UpCallAgain ==
    /\ prog = "update_profiles_yml" /\ pc = "returned"
    /\ ret["update_profiles_yml"] = "ok"
    /\ UpdateProfilesYml(QuickProfiles, project_id, key_file)
    /\ pc' = "returned_twice"
    /\ UNCHANGED <<race, result, prog, exists, orig, project_id, key_file, script_dir, i, log, exit_code>>

NextRewrite == UpCall \/ UpCallAgain

SpecRewrite == InitRewrite /\ [][NextRewrite]_vars

\* ============== two runs of update_profiles_yml on the same profiles.yml
RacePids == {<<Other>>, <<"beta-", "clinic">>}
RaceKeys == {ScriptKey(AltDir), <<"key.json">>}
RaceArgs == [pid : RacePids, kf : RaceKeys]
RacePath == ScriptProfiles(AltDir)

InitRace ==
    /\ exists \in SUBSET {RacePath}
    /\ content \in ProfileContents
    /\ script_dir = AltDir
    /\ prog = "race"
    /\ pc = "race"
    /\ orig = content
    /\ project_id = <<>>
    /\ key_file = <<>>
    /\ i = 1
    /\ log = <<>>
    /\ exit_code = NotExited
    /\ ret = [f \in Funcs |-> "none"]
    /\ missing = NoPath
    /\ result = NoResult
    /\ \E a \in RaceArgs, b \in RaceArgs :
          /\ a # b
          /\ race = [RaceIdle EXCEPT !.pc = [r \in Runs |-> "check"],
                                      !.args = [r \in Runs |-> IF r = 1 THEN a ELSE b]]

RaceFrame ==
    UNCHANGED <<prog, pc, exists, orig, project_id, key_file, script_dir,
                i, log, exit_code, ret, missing, result>>

\* if not profiles_file.exists(): return False
RaceCheck(r) ==
    /\ prog = "race" /\ race.pc[r] = "check"
    /\ IF RacePath \in exists
       THEN race' = [race EXCEPT !.pc[r] = "read"]
       ELSE race' = [race EXCEPT !.pc[r] = "done", !.ret[r] = "fail"]
    /\ UNCHANGED content
    /\ RaceFrame

\* content = f.read(), and the two replacements on the local content
RaceRead(r) ==
    /\ prog = "race" /\ race.pc[r] = "read"
    /\ race' = [race EXCEPT !.pc[r] = "open",
                            !.buf[r] = RewriteContent(content, race.args[r].pid, race.args[r].kf)]
    /\ UNCHANGED content
    /\ RaceFrame

\* open(profiles_file, "w"): the file is truncated, the offset is 0
RaceOpen(r) ==
    /\ prog = "race" /\ race.pc[r] = "open"
    /\ content' = <<>>
    /\ race' = [race EXCEPT !.pc[r] = "write"]
    /\ RaceFrame

\* the text of a file after buf is written at offset 0
WriteAppend(file, buf) == file \o buf
WriteAtStart(file, buf) == buf \o SubSeq(file, Len(buf) + 1, Len(file))

\* f.write(content) and the close that flushes it; return True
RaceWrite(r) ==
    /\ prog = "race" /\ race.pc[r] = "write"
    /\ content' = WriteAtStart(content, race.buf[r])
    /\ race' = [race EXCEPT !.pc[r] = "done", !.ret[r] = "ok", !.last = r]
    /\ RaceFrame

NextRace ==
    \E r \in Runs : RaceCheck(r) \/ RaceRead(r) \/ RaceOpen(r) \/ RaceWrite(r)

SpecRace == InitRace /\ [][NextRace]_vars

\* ================================================================ claims
IsDbt(e) == e.kind = "dbt"
IsDataset(e) == e.kind = "dataset"
IsRole(e) == e.kind = "role"
DbtLog == SelectSeq(log, IsDbt)
DatasetLog == SelectSeq(log, IsDataset)
RoleLog == SelectSeq(log, IsRole)
Issued(kind) == \E k \in 1..Len(log) : log[k].kind = kind

\* C1: run_dbt_pipeline issues the steps in list order, issues nothing after
\* the first failed step and returns failure there; it returns success only
\* when all five steps were issued and every one succeeded.
C1_PipelineFailFast ==
    prog = "setup_pipeline" =>
      /\ Len(DbtLog) <= Len(Commands)
      /\ \A k \in 1..Len(DbtLog) : DbtLog[k].argv = <<Commands[k]>>
      /\ \A k \in 1..(Len(DbtLog) - 1) : DbtLog[k].rc = 0
      /\ (ret["run_dbt_pipeline"] = "fail") <=>
            (Len(DbtLog) > 0 /\ DbtLog[Len(DbtLog)].rc # 0)
      /\ (ret["run_dbt_pipeline"] = "ok") <=>
            (Len(DbtLog) = Len(Commands) /\ \A k \in 1..Len(DbtLog) : DbtLog[k].rc = 0)
      /\ ret["run_dbt_pipeline"] = "fail" => pc = "done" /\ exit_code = 1
      /\ ret["run_dbt_pipeline"] = "ok" => pc = "done" /\ exit_code = 0

\* a run where the third step failed after two successes, one with no output
C1_Witness ==
    /\ prog = "setup_pipeline"
    /\ Len(DbtLog) = 3
    /\ DbtLog[1].rc = 0 /\ DbtLog[1].stdout = <<>>
    /\ DbtLog[3].rc # 0
    /\ ret["run_dbt_pipeline"] = "fail"

\* C2: when every failed dataset creation has "already exists" in the
\* command's stderr, setup_bigquery_datasets does not fail: it goes on to the
\* remaining names and returns success.
C2_AlreadyExistsInStderrIsSuccess ==
    (prog = "setup_gcp_looker" /\
     \A k \in 1..Len(DatasetLog) :
        DatasetLog[k].rc # 0 => Contains(DatasetLog[k].stderr, <<AlreadyExists>>))
    => /\ ret["setup_bigquery_datasets"] # "fail"
       /\ (pc = "done" /\ Len(DatasetLog) > 0) => Len(DatasetLog) = Len(Datasets)

\* C3: a failed dataset creation that the code does not classify as
\* "already exists" makes setup_bigquery_datasets return failure at once: it
\* is the last command of the run.
C3_OtherDatasetErrorIsFatal ==
    \A k \in 1..Len(log) :
       (log[k].kind = "dataset" /\ log[k].rc # 0
          /\ ~ClassifiedAlreadyExists(log[k].argv, log[k].rc))
       => /\ k = Len(log)
          /\ ret["setup_bigquery_datasets"] = "fail"
          /\ pc = "done" /\ exit_code = 1

\* the first dataset failed with an unclassified error; the second was never tried
C3_Witness ==
    /\ Len(DatasetLog) = 1
    /\ DatasetLog[1].rc # 0
    /\ ~ClassifiedAlreadyExists(DatasetLog[1].argv, DatasetLog[1].rc)
    /\ pc = "done"

\* C4: the role loop issues a binding command for every role, in order,
\* whichever of them fail; create_service_account then returns the identity
\* and the run goes on to key creation.
C4_RoleFailuresNotFatal ==
    /\ Len(RoleLog) <= Len(Roles)
    /\ \A k \in 1..Len(RoleLog) :
          RoleLog[k].argv = <<"gcloud", "projects", "add-iam-policy-binding", Roles[k]>>
    /\ Len(RoleLog) > 0 => ret["create_service_account"] # "fail"
    /\ (Len(RoleLog) > 0 /\ pc # "gl_roles") =>
          /\ Len(RoleLog) = Len(Roles)
          /\ ret["create_service_account"] = "ok"
          /\ pc = "gl_key" \/ Issued("key")
    /\ (Len(RoleLog) > 0 /\ pc = "gl_roles") => Len(RoleLog) = i - 1

\* the second and fourth bindings failed, all four were issued, key creation ran
C4_Witness ==
    /\ Len(RoleLog) = Len(Roles)
    /\ RoleLog[1].rc = 0 /\ RoleLog[2].rc # 0 /\ RoleLog[3].rc = 0 /\ RoleLog[4].rc # 0
    /\ Issued("key")

\* C5: after update_profiles_yml returns success the file holds no
\* occurrence of either placeholder token.
C5_NoPlaceholderLeft ==
    ret["update_profiles_yml"] = "ok" =>
      /\ ~Contains(content, ProjectToken)
      /\ ~Contains(content, KeyToken)

\* the original text with every token occurrence replaced by its value, in
\* one pass, nothing that was inserted being looked at again
RECURSIVE SubstituteTokens(_, _, _)
SubstituteTokens(s, pid, kf) ==
    IF s = <<>> THEN <<>>
    ELSE IF Len(s) >= Len(ProjectToken) /\ SubSeq(s, 1, Len(ProjectToken)) = ProjectToken
         THEN pid \o SubstituteTokens(SubSeq(s, Len(ProjectToken) + 1, Len(s)), pid, kf)
    ELSE IF Len(s) >= Len(KeyToken) /\ SubSeq(s, 1, Len(KeyToken)) = KeyToken
         THEN kf \o SubstituteTokens(SubSeq(s, Len(KeyToken) + 1, Len(s)), pid, kf)
    ELSE <<Head(s)>> \o SubstituteTokens(Tail(s), pid, kf)

\* C6: after update_profiles_yml succeeds the file is the original text with
\* each token occurrence replaced by its own value and everything else,
\* inserted values included, left as it is.
C6_ExactSubstitution ==
    ret["update_profiles_yml"] = "ok" =>
      content = SubstituteTokens(orig, project_id, key_file)

MutatingKinds == {"pip", "dataset", "service_account", "role", "key"}
RequiredPaths == {MyProject, DbtProjectYml, CwdProfiles}
                   \cup {ScriptProfiles(d) : d \in ScriptDirs}
                   \cup {ScriptProject(d) : d \in ScriptDirs}
                   \cup {QuickProfiles}

\* C7: when a required path is reported missing, no installation and no
\* resource-creating command has been issued in the run.
C7_MissingPathBeforeMutation ==
    missing \in RequiredPaths =>
      \A k \in 1..Len(log) : log[k].kind \notin MutatingKinds

\* the two kinds of command failure the run is allowed to survive
Tolerated(e) ==
    \/ e.kind = "role"
    \/ e.kind \in {"dataset", "service_account"} /\ ClassifiedAlreadyExists(e.argv, e.rc)

\* C8: a command that exits non-zero ends the run with exit status 1, it is
\* the last command of the run, unless it is a creation classified as
\* "already exists" or a role binding.
C8_OnlyTwoFailuresTolerated ==
    \A k \in 1..Len(log) :
       (log[k].rc # 0 /\ ~Tolerated(log[k]))
       => k = Len(log) /\ pc = "done" /\ exit_code = 1

C10_KeyFailureIsFatal ==
    \A k \in 1..Len(log) :
       (log[k].kind = "key" /\ log[k].rc # 0)
       => /\ ret["create_service_account_key"] = "fail"
          /\ key_file = <<>>
          /\ ret["update_profiles_yml"] = "none"
          /\ content = orig
          /\ ~Issued("dbt_debug")
          /\ k = Len(log)
          /\ pc = "done" /\ exit_code = 1

\* key creation failed after the datasets and the service account were made
C10_Witness ==
    /\ Issued("key")
    /\ log[Len(log)].kind = "key" /\ log[Len(log)].rc # 0
    /\ ret["create_service_account"] = "ok"
    /\ ScriptProfiles(script_dir) \in exists
    /\ pc = "done"

\* C11: a failed service-account creation whose stderr holds "already
\* exists" is taken as success (roles are granted, the identity returned);
\* with any other error no identity is returned, no role binding is issued
\* and the run aborts.
C11_ServiceAccountAlreadyExists ==
    \A k \in 1..Len(log) :
       (log[k].kind = "service_account" /\ log[k].rc # 0) =>
          IF Contains(log[k].stderr, <<AlreadyExists>>)
          THEN /\ ret["create_service_account"] # "fail"
               /\ pc = "done" => Len(RoleLog) = Len(Roles)
          ELSE /\ ret["create_service_account"] = "fail"
               /\ Len(RoleLog) = 0
               /\ pc = "done" /\ exit_code = 1

\* C12: validate_dbt_project fails citing the first missing path in the
\* code's order (dbt_project.yml before profiles.yml), citing only that one
\* when both are missing, and succeeds exactly when neither is missing.
C12_ValidateFirstMissing ==
    ret["validate_dbt_project"] # "none" =>
      /\ (ret["validate_dbt_project"] = "ok") <=>
            (DbtProjectYml \in exists /\ CwdProfiles \in exists)
      /\ ret["validate_dbt_project"] = "ok" => missing = NoPath
      /\ (ret["validate_dbt_project"] = "fail" /\ DbtProjectYml \notin exists)
            => missing = DbtProjectYml
      /\ (ret["validate_dbt_project"] = "fail" /\ DbtProjectYml \in exists)
            => missing = CwdProfiles

\* both files are missing and only dbt_project.yml is cited
C12_Witness ==
    /\ ret["validate_dbt_project"] = "fail"
    /\ DbtProjectYml \notin exists /\ CwdProfiles \notin exists
    /\ missing = DbtProjectYml

\* C13: called when the configuration file does not exist,
\* update_profiles_yml returns False and neither creates nor writes the file.
C13_MissingFileUntouched ==
    [][(/\ ret["update_profiles_yml"] = "none"
        /\ ret'["update_profiles_yml"] # "none"
        /\ QuickProfiles \notin exists)
       => (/\ ret'["update_profiles_yml"] = "fail"
           /\ exists' = exists
           /\ content' = content)]_vars

\* the call failed on a missing file whose would-be text holds a token
C13_Witness ==
    /\ prog = "update_profiles_yml"
    /\ ret["update_profiles_yml"] = "fail"
    /\ QuickProfiles \notin exists
    /\ Contains(orig, ProjectToken)
    /\ content = orig

\* C16: when the file holds neither token, update_profiles_yml returns
\* success and the file is the same text as before.
C16_NoTokenNoChange ==
    (/\ prog = "update_profiles_yml"
     /\ ret["update_profiles_yml"] # "none"
     /\ QuickProfiles \in exists
     /\ ~Contains(orig, ProjectToken)
     /\ ~Contains(orig, KeyToken))
    => /\ ret["update_profiles_yml"] = "ok"
       /\ content = orig

\* a successful call on a text that holds the first half of each token only
C16_Witness ==
    /\ prog = "update_profiles_yml"
    /\ ret["update_profiles_yml"] = "ok"
    /\ orig = <<TokY, KeyDir>>
    /\ content = orig

\* C18: update_profiles_yml applied twice with the same arguments leaves the
\* file as one application leaves it.
C18_Idempotent ==
    (prog = "update_profiles_yml" /\ pc = "returned_twice")
    => content = RewriteContent(orig, project_id, key_file)

\* a failure from the list of fatal ones: a required path or the
\* configuration file missing, a fatal dataset or service-account failure,
\* a failed key creation, a failed pipeline step
FatalFailure ==
    \/ missing \in RequiredPaths
    \/ \E f \in {"validate_dbt_project", "run_dbt_pipeline", "setup_bigquery_datasets",
                 "create_service_account", "create_service_account_key",
                 "update_profiles_yml"} : ret[f] = "fail"

RanToCompletion ==
    \/ prog = "setup_pipeline" /\ ret["run_dbt_pipeline"] = "ok"
    \/ prog = "setup_gcp_looker" /\ ret["update_profiles_yml"] = "ok"
                                 /\ ret["test_dbt_connection"] # "none"
    \/ prog = "quick_setup" /\ ret["update_profiles_yml"] = "ok"

\* C14: an entry point exits non-zero whenever a fatal failure occurred, and
\* exits zero only when it ran to completion with none.
C14_ExitStatus ==
    pc = "done" =>
      /\ FatalFailure => exit_code = 1
      /\ exit_code = 0 => (RanToCompletion /\ ~FatalFailure)

\* C15: run_command runs its command once per call; it returns the captured
\* output exactly when the exit status is zero and None exactly when it is
\* not; the pipeline driver takes a zero exit with empty output as success.
C15_RunCommandOnce ==
    prog = "setup_pipeline" =>
      /\ pc = "sp_dbt" => Len(DbtLog) = i - 1
      /\ \A k \in 1..Len(DbtLog) : DbtLog[k].argv = <<Commands[k]>>
      /\ Len(DbtLog) > 0 =>
            LET e == DbtLog[Len(DbtLog)]
            IN /\ e.rc = 0 => (~result.isNone /\ result.value = e.stdout)
               /\ e.rc # 0 => result.isNone
      /\ \A k \in 1..Len(DbtLog) :
            DbtLog[k].rc = 0 => (k < Len(DbtLog) \/ ret["run_dbt_pipeline"] # "fail")

\* all five steps exited zero with no output and the pipeline succeeded
C15_Witness ==
    /\ prog = "setup_pipeline"
    /\ Len(DbtLog) = Len(Commands)
    /\ \A k \in 1..Len(DbtLog) : DbtLog[k].rc = 0 /\ DbtLog[k].stdout = <<>>
    /\ result = [isNone |-> FALSE, value |-> <<>>]
    /\ ret["run_dbt_pipeline"] = "ok"

\* C19: quick_setup's main leaves the configuration file alone and returns
\* failure without calling update_profiles_yml unless the project id is
\* non-empty and the chosen key file exists.
C19_QuickSetupGuards ==
    prog = "quick_setup" =>
      /\ (content # orig \/ ret["update_profiles_yml"] # "none")
            => (project_id # <<>> /\ key_file \in exists)
      /\ (pc = "done" /\ (project_id = <<>> \/ key_file \notin exists))
            => /\ exit_code = 1
               /\ ret["update_profiles_yml"] = "none"
               /\ content = orig

\* Enter was pressed for the default key file, which does not exist
C19_Witness ==
    /\ prog = "quick_setup" /\ pc = "done"
    /\ project_id # <<>>
    /\ key_file = KeyToken /\ key_file \notin exists
    /\ QuickProfiles \in exists
    /\ Contains(content, ProjectToken)
    /\ exit_code = 1

BothDone == prog = "race" /\ \A r \in Runs : race.pc[r] = "done"

\* C17 as stated: after two interleaved runs on an existing file both have
\* returned success and the file is the output of the run that wrote last.
C17_LastWriterWins ==
    (BothDone /\ RacePath \in exists) =>
      /\ \A r \in Runs : race.ret[r] = "ok"
      /\ content = race.buf[race.last]

\* C17 as amended: both have returned success and the file begins with the
\* output of the run that wrote last; it is that output alone, or that output
\* followed by the tail of the other run's longer output.
C17_LastWriterPrefix ==
    (BothDone /\ RacePath \in exists) =>
      /\ \A r \in Runs : race.ret[r] = "ok"
      /\ LET w == race.last
             o == 3 - w
         IN \/ content = race.buf[w]
            \/ /\ Len(race.buf[o]) > Len(race.buf[w])
               /\ content = race.buf[w] \o SubSeq(race.buf[o], Len(race.buf[w]) + 1, Len(race.buf[o]))

\* run 1 substituted both tokens and returned success, yet neither of its
\* values is in the file the two runs left
C17_Witness ==
    /\ BothDone
    /\ orig = Template
    /\ race.ret[1] = "ok"
    /\ race.buf[1] = race.args[1].pid \o race.args[1].kf
    /\ ~Contains(content, race.args[1].pid)
    /\ ~Contains(content, race.args[1].kf)

=============================================================================
